---- MODULE Spec2Model ----
(***************************************************************************)
(* AdaptiveRateLimiter of src/src/api_utils.py as a state machine.         *)
(*                                                                         *)
(* Python floats are modelled as exact rationals [num, den] (den > 0, in   *)
(* lowest terms): the controller only multiplies, compares and clamps, so  *)
(* the model computes what the code computes up to float rounding.         *)
(***************************************************************************)
EXTENDS Integers, Sequences, FiniteSets, TLC

\* ------------------------------------------------------------------ bounds
\* post_request calls per behaviour
MaxEvents == 5
\* pre_request calls per behaviour (clock specifications)
MaxCalls == 3
\* clock quanta that may pass per behaviour (clock specifications)
MaxTicks == 2
\* post_request calls per behaviour in the clock specifications
MaxClockEvents == 2

\* ------------------------------------------------------- float arithmetic
Abs(x) == IF x < 0 THEN -x ELSE x

RECURSIVE GCD(_, _)
GCD(a, b) == IF b = 0 THEN a ELSE GCD(b, a % b)

\* the rational n/d in lowest terms, d > 0
Rat(n, d) ==
    LET g == GCD(Abs(n), d)
    IN  [num |-> n \div g, den |-> d \div g]

RInt(k) == [num |-> k, den |-> 1]

\* a * b, cross-reduced before multiplying
RMul(a, b) ==
    LET g1 == GCD(Abs(a.num), b.den)
        g2 == GCD(Abs(b.num), a.den)
    IN  IF a.num = 0 \/ b.num = 0
        THEN RInt(0)
        ELSE [num |-> (a.num \div g1) * (b.num \div g2),
              den |-> (a.den \div g2) * (b.den \div g1)]

RAdd(a, b) ==
    LET g == GCD(a.den, b.den)
    IN  Rat(a.num * (b.den \div g) + b.num * (a.den \div g),
            (a.den \div g) * b.den)

RNeg(a) == [num |-> -a.num, den |-> a.den]

RSub(a, b) == RAdd(a, RNeg(b))

\* a / k for an integer k > 0
RDivInt(a, k) ==
    LET g == GCD(Abs(a.num), k)
    IN  IF a.num = 0 THEN RInt(0)
        ELSE [num |-> a.num \div g, den |-> a.den * (k \div g)]

\* n1/d1 < n2/d2 for d1, d2 > 0: by integer parts, then by the reciprocals
\* of the fractional parts (no products, so no overflow)
RECURSIVE FracLess(_, _, _, _)
FracLess(n1, d1, n2, d2) ==
    LET q1 == n1 \div d1
        q2 == n2 \div d2
        r1 == n1 % d1
        r2 == n2 % d2
    IN  IF q1 # q2 THEN q1 < q2
        ELSE IF r2 = 0 THEN FALSE
        ELSE IF r1 = 0 THEN TRUE
        ELSE FracLess(d2, r2, d1, r1)

RLess(a, b) == FracLess(a.num, a.den, b.num, b.den)

RLeq(a, b) == ~RLess(b, a)

\* Python's min(a, b) and max(a, b)
RMin(a, b) == IF RLess(b, a) THEN b ELSE a

RMax(a, b) == IF RLess(a, b) THEN b ELSE a

\* Python's r ** k for an integer k >= 0
RECURSIVE RPow(_, _)
RPow(r, k) == IF k = 0 THEN RInt(1) ELSE RMul(r, RPow(r, k - 1))

RECURSIVE RSum(_)
RSum(s) == IF s = <<>> THEN RInt(0) ELSE RAdd(Head(s), RSum(Tail(s)))

\* statistics.mean of a non-empty sequence
Mean(s) == RDivInt(RSum(s), Len(s))

\* the literals of _handle_error and _adjust_delay
BackoffBase == Rat(3, 2)

EaseOffFactor == Rat(6, 5)

SpeedUpFactor == Rat(19, 20)

\* ---------------------------------------------------------- configuration
\* The four dataclass fields are class-level defaults (50, 0.5, 0.2, 5.0); the
\* hand-written __init__ takes no arguments, so another configuration is a
\* subclass or an attribute override. A behaviour fixes one configuration.
Cfg(w, t, lo, hi) ==
    [window_size |-> w, target_response_time |-> t,
     min_delay |-> lo, max_delay |-> hi]

\* the scenario of the specification: window 10, target 0.5 s, 0.2 s .. 5.0 s
ScenarioCfg == Cfg(10, Rat(1, 2), Rat(1, 5), RInt(5))

\* window_size >= 1 and 0 <= min_delay <= max_delay (delays are durations)
GoodConfigs ==
    { ScenarioCfg,
      Cfg(1, Rat(1, 2), Rat(1, 5), RInt(5)),
      Cfg(2, Rat(1, 2), Rat(1, 5), Rat(1, 2)),
      Cfg(3, Rat(1, 2), Rat(1, 5), RInt(5)),
      Cfg(4, Rat(1, 2), RInt(0), RInt(1)),
      Cfg(5, RInt(1), Rat(1, 2), RInt(2)),
      Cfg(3, Rat(1, 2), RInt(1), RInt(1)) }

\* min_delay > max_delay, window_size <= 0
BadConfigs ==
    { Cfg(10, Rat(1, 2), RInt(5), Rat(1, 5)),
      Cfg(0, Rat(1, 2), Rat(1, 5), RInt(5)),
      Cfg(-1, Rat(1, 2), Rat(1, 5), RInt(5)) }

WellFormed(c) == c.window_size >= 1 /\ RLeq(c.min_delay, c.max_delay)

\* a response is its elapsed.total_seconds(); None (a failed request) is the
\* one value that is no rational
None == [num |-> 0, den |-> 0]

Latencies == { Rat(1, 10), Rat(1, 4), Rat(1, 2), RInt(1) }

Responses == {None} \cup Latencies

ClockConfigs ==
    { ScenarioCfg,
      Cfg(1, Rat(1, 2), Rat(1, 5), RInt(5)),
      Cfg(2, Rat(1, 2), Rat(1, 5), Rat(1, 2)) }

ClockResponses == { None, Rat(1, 10), RInt(1) }

ThreadConfigs == { ScenarioCfg }

\* max_delay / min_delay small: the speed-up steps from max_delay down to
\* min_delay stay within the integers of the checker
RecoveryConfigs ==
    { Cfg(1, Rat(1, 2), RInt(1), Rat(5, 4)),
      Cfg(2, RInt(1), RInt(1), Rat(5, 4)),
      Cfg(2, Rat(1, 2), Rat(1, 5), Rat(1, 4)),
      Cfg(4, RInt(1), RInt(1), Rat(6, 5)),
      Cfg(4, Rat(1, 2), RInt(0), RInt(1)),
      Cfg(3, Rat(1, 2), RInt(1), RInt(1)) }

\* the latencies below target_response_time / 2
LowLatencies(c) ==
    { l \in Latencies : RLess(l, RDivInt(c.target_response_time, 2)) }

ThreadResponses == { None, RInt(1) }

Callers == {1, 2}

\* time() when the controller is constructed: far from last_request_time = 0
StartTime == RInt(10)

\* the clock quantum of Tick
Quantum == Rat(1, 10)

\* ------------------------------------------------------------------ state
VARIABLES
    cfg,                \* the dataclass fields window_size .. max_delay
    phase,              \* "new" | "ready" | "rejected" (ValueError in __init__)
    response_times,     \* self.response_times, a deque(maxlen = window_size)
    current_delay,      \* self.current_delay
    error_count,        \* self.error_count
    last_request_time,  \* self.last_request_time
    adjust_calls,       \* ghost: calls of _adjust_delay so far
    raised,             \* exception raised by the last call, or "none"
    now,                \* time()
    pc,                 \* per caller: "idle" | "sleeping" | "stamp"
    wake_at,            \* per caller: the time its sleep() may return
    read_delay,         \* per caller: current_delay as read by pre_request
    slept,              \* ghost, per caller: its pre_request called sleep()
    ticks,              \* clock quanta passed so far
    hist,               \* ghost: the post_request calls so far
    starts,             \* ghost: the pre_request returns so far
    entry,              \* ghost, per caller inside pre_request: what it met
    rpc,                \* per caller: its position inside post_request
    loc,                \* per caller: the locals of its post_request
    mode,               \* "any" | "race" | "recover": the calls still to come
    mark                \* ghost: the object when mode left "any"

vars == <<cfg, phase, response_times, current_delay, error_count,
          last_request_time, adjust_calls, raised, now, pc, wake_at,
          read_delay, slept, ticks, hist, starts, entry, rpc, loc, mode,
          mark>>

obj == <<response_times, current_delay, error_count, last_request_time,
         adjust_calls, raised>>

clk == <<now, pc, wake_at, read_delay, slept, ticks, starts>>

race == <<rpc, loc>>

recovery == <<mode, mark>>

aux == <<entry, rpc, loc, mode, mark>>

\* the object as one value
Self ==
    [response_times |-> response_times, current_delay |-> current_delay,
     error_count |-> error_count, last_request_time |-> last_request_time,
     adjust_calls |-> adjust_calls, raised |-> "none"]

\* the object after the step being taken
SelfNext ==
    [response_times |-> response_times', current_delay |-> current_delay',
     error_count |-> error_count', last_request_time |-> last_request_time',
     adjust_calls |-> adjust_calls', raised |-> "none"]

\* __init__: the fields of a new object
NewSelf(c) ==
    [response_times |-> <<>>, current_delay |-> c.min_delay,
     error_count |-> 0, last_request_time |-> RInt(0),
     adjust_calls |-> 0, raised |-> "none"]

Store(s) ==
    /\ response_times' = s.response_times
    /\ current_delay' = s.current_delay
    /\ error_count' = s.error_count
    /\ last_request_time' = s.last_request_time
    /\ adjust_calls' = s.adjust_calls
    /\ raised' = s.raised

\* ------------------------------------------------------------- operations
\* the largest k for which the double 1.5 ** k is finite (1.5 ** 1751
\* raises OverflowError)
FloatPowLimit == 1750

\* d * 1.5 ** k for d >= 0, one factor at a time; once the product has passed
\* max_delay the factors left are dropped: min(max_delay, .) returns
\* max_delay either way, as it does for the float product (inf included)
RECURSIVE TimesPow(_, _)
TimesPow(d, k) ==
    IF d.num = 0 THEN RInt(0)
    ELSE IF k = 0 \/ RLess(cfg.max_delay, d) THEN d
    ELSE TimesPow(RMul(d, BackoffBase), k - 1)

\* a plain list append: nothing is evicted
DequeAppendUnbounded(q, x, maxlen) == Append(q, x)

\* deque.append under maxlen: a full deque drops its oldest item
DequeAppend(q, x, maxlen) ==
    IF maxlen = 0 THEN q
    ELSE IF Len(q) >= maxlen THEN Append(Tail(q), x)
    ELSE Append(q, x)

\* _handle_error without the cap at max_delay
HandleErrorNoCap(self) ==
    LET ec == self.error_count + 1
    IN  [self EXCEPT
            !.error_count = ec,
            !.current_delay = RMul(self.current_delay, RPow(BackoffBase, ec))]

\* _handle_error with a flat multiplier of 1.5 per failure
HandleErrorFlat(self) ==
    LET ec == self.error_count + 1
    IN  [self EXCEPT
            !.error_count = ec,
            !.current_delay =
                RMin(cfg.max_delay, RMul(self.current_delay, BackoffBase))]

\* _handle_error dividing by 1.5 ** error_count
HandleErrorDivide(self) ==
    LET ec == self.error_count + 1
    IN  [self EXCEPT
            !.error_count = ec,
            !.current_delay =
                RMin(cfg.max_delay,
                     RMul(self.current_delay, RPow(Rat(2, 3), ec)))]

\* _handle_error with the exponent read before the increment
HandleErrorStaleExponent(self) ==
    LET ec == self.error_count + 1
    IN  [self EXCEPT
            !.error_count = ec,
            !.current_delay =
                RMin(cfg.max_delay,
                     RMul(self.current_delay,
                          RPow(BackoffBase, self.error_count)))]

\* _handle_error that also records a zero latency for the failed request
HandleErrorRecordsSample(self) ==
    LET ec == self.error_count + 1
    IN  [self EXCEPT
            !.error_count = ec,
            !.response_times = DequeAppend(@, RInt(0), cfg.window_size),
            !.current_delay =
                RMin(cfg.max_delay,
                     RMul(self.current_delay, RPow(BackoffBase, ec)))]

\* _handle_error; 1.5 ** error_count raises OverflowError past the largest
\* double, after the counter was incremented and before the delay is written
HandleError(self) ==
    LET ec == self.error_count + 1
    IN  IF ec > FloatPowLimit
        THEN [self EXCEPT !.error_count = ec, !.raised = "OverflowError"]
        ELSE [self EXCEPT
                !.error_count = ec,
                !.current_delay =
                    RMin(cfg.max_delay, TimesPow(self.current_delay, ec))]

\* _adjust_delay with both comparisons inclusive
AdjustedDelayInclusive(self, avg) ==
    IF RLeq(cfg.target_response_time, avg)
    THEN RMin(cfg.max_delay, RMul(self.current_delay, EaseOffFactor))
    ELSE IF RLeq(avg, RDivInt(cfg.target_response_time, 2))
    THEN RMax(cfg.min_delay, RMul(self.current_delay, SpeedUpFactor))
    ELSE self.current_delay

\* the delay _adjust_delay assigns for a mean response time avg
AdjustedDelay(self, avg) ==
    IF RLess(cfg.target_response_time, avg)
    THEN RMin(cfg.max_delay, RMul(self.current_delay, EaseOffFactor))
    ELSE IF RLess(avg, RDivInt(cfg.target_response_time, 2))
    THEN RMax(cfg.min_delay, RMul(self.current_delay, SpeedUpFactor))
    ELSE self.current_delay

\* _adjust_delay with the error-count decay inside the speed-up branch
AdjustDelayDecayOnSpeedUp(self) ==
    IF self.response_times = <<>>
    THEN [self EXCEPT !.adjust_calls = @ + 1, !.raised = "StatisticsError"]
    ELSE LET avg == Mean(self.response_times)
             sped == /\ ~RLess(cfg.target_response_time, avg)
                     /\ RLess(avg, RDivInt(cfg.target_response_time, 2))
         IN  [self EXCEPT
                !.adjust_calls = @ + 1,
                !.current_delay = AdjustedDelay(self, avg),
                !.error_count = IF sped /\ self.error_count - 1 > 0
                                THEN self.error_count - 1
                                ELSE IF sped THEN 0 ELSE self.error_count]

\* _adjust_delay that resets the error count to 0
AdjustDelayResetCount(self) ==
    IF self.response_times = <<>>
    THEN [self EXCEPT !.adjust_calls = @ + 1, !.raised = "StatisticsError"]
    ELSE [self EXCEPT
            !.adjust_calls = @ + 1,
            !.current_delay = AdjustedDelay(self, Mean(self.response_times)),
            !.error_count = 0]

\* _adjust_delay that leaves the error count alone
AdjustDelayNoDecay(self) ==
    IF self.response_times = <<>>
    THEN [self EXCEPT !.adjust_calls = @ + 1, !.raised = "StatisticsError"]
    ELSE [self EXCEPT
            !.adjust_calls = @ + 1,
            !.current_delay = AdjustedDelay(self, Mean(self.response_times))]

\* _adjust_delay; mean() of no data raises StatisticsError
AdjustDelay(self) ==
    IF self.response_times = <<>>
    THEN [self EXCEPT !.adjust_calls = @ + 1, !.raised = "StatisticsError"]
    ELSE [self EXCEPT
            !.adjust_calls = @ + 1,
            !.current_delay = AdjustedDelay(self, Mean(self.response_times)),
            !.error_count = IF self.error_count - 1 > 0
                            THEN self.error_count - 1 ELSE 0]

\* the gate tested against the length before the append
GateOpenEarly(self) == Len(self.response_times) + 1 >= cfg.window_size \div 2

\* the gate with > for >=
GateOpenLate(self) == Len(self.response_times) > cfg.window_size \div 2

\* the gate of post_request
GateOpen(self) == Len(self.response_times) >= cfg.window_size \div 2

\* post_request(response)
PostRequest(self, response) ==
    IF response = None
    THEN HandleError(self)
    ELSE LET s1 == [self EXCEPT !.response_times =
                        DequeAppend(@, response, cfg.window_size)]
         IN  IF GateOpen(s1) THEN AdjustDelay(s1) ELSE s1

\* ---------------------------------------------------------------- actions
\* AdaptiveRateLimiter(): deque(maxlen = n) raises ValueError for n < 0
Construct ==
    /\ phase = "new"
    /\ IF cfg.window_size < 0
       THEN /\ phase' = "rejected"
            /\ raised' = "ValueError"
            /\ UNCHANGED <<response_times, current_delay, error_count,
                           last_request_time, adjust_calls>>
       ELSE /\ phase' = "ready"
            /\ Store(NewSelf(cfg))
    /\ UNCHANGED <<cfg, hist>>
    /\ UNCHANGED clk
    /\ UNCHANGED aux

\* caller c calls post_request(response)
PostRequestCall(c, response, bound) ==
    /\ phase = "ready"
    /\ pc[c] = "idle"
    /\ Len(hist) < bound
    /\ LET post == PostRequest(Self, response)
       IN  /\ Store(post)
           /\ hist' = Append(hist, [response |-> response,
                                    pre |-> Self, post |-> post])
    /\ UNCHANGED <<cfg, phase>>
    /\ UNCHANGED clk
    /\ UNCHANGED aux

\* caller c calls post_request(response); the ghosts do not record the call
PostRequestQuiet(c, response) ==
    /\ phase = "ready"
    /\ pc[c] = "idle"
    /\ Store([PostRequest(Self, response) EXCEPT
                 !.adjust_calls = adjust_calls])
    /\ UNCHANGED <<cfg, phase, hist>>
    /\ UNCHANGED clk
    /\ UNCHANGED aux

\* the locals of a caller that is not inside post_request
NoLocals == [response |-> None, count |-> 0, delay |-> RInt(0), avg |-> RInt(0)]

\* caller c moves to position p with locals l
Goto(c, p, l) ==
    /\ rpc' = [rpc EXCEPT ![c] = p]
    /\ loc' = [loc EXCEPT ![c] = l]

\* from here on every response is a success below target_response_time / 2
BeginRecovery ==
    /\ phase = "ready"
    /\ mode = "any"
    /\ mode' = "recover"
    /\ mark' = Self
    /\ UNCHANGED <<cfg, phase, hist, entry, race>>
    /\ UNCHANGED obj
    /\ UNCHANGED clk

\* a request took less than target_response_time / 2 and its caller enters
\* post_request(response)
RecoverEnter ==
    /\ mode = "recover"
    /\ rpc[1] = "idle"
    /\ \E r \in LowLatencies(cfg) :
          Goto(1, "called", [loc[1] EXCEPT !.response = r])
    /\ UNCHANGED <<cfg, phase, hist, entry, recovery>>
    /\ UNCHANGED obj
    /\ UNCHANGED clk

\* the post_request call in progress runs and returns
RecoverRun ==
    /\ mode = "recover"
    /\ rpc[1] = "called"
    /\ Store([PostRequest(Self, loc[1].response) EXCEPT
                 !.adjust_calls = adjust_calls])
    /\ Goto(1, "idle", NoLocals)
    /\ UNCHANGED <<cfg, phase, hist, entry, recovery>>
    /\ UNCHANGED clk

\* what every step of RecoverRun, and no other step, does to rpc
Returns ==
    /\ rpc[1] = "called"
    /\ rpc' = [rpc EXCEPT ![1] = "idle"]

\* sleep(time_since_last)
SleepForElapsed(delay, time_since_last) == time_since_last

\* sleep(self.current_delay)
SleepForFullDelay(delay, time_since_last) == delay

\* the entry ghost of a caller that is not inside pre_request
NoEntry == [t |-> RInt(0), self |-> NewSelf(Cfg(0, RInt(0), RInt(0), RInt(0))),
            asked |-> RInt(0)]

\* the argument of sleep() in pre_request
SleepFor(delay, time_since_last) == RSub(delay, time_since_last)

\* pre_request up to its sleep(): lines 30-32
PreCheck(c) ==
    /\ phase = "ready"
    /\ pc[c] = "idle"
    /\ Len(starts) + Cardinality({k \in Callers : pc[k] # "idle"}) < MaxCalls
    /\ LET time_since_last == RSub(now, last_request_time)
       IN  IF RLess(time_since_last, current_delay)
           THEN /\ pc' = [pc EXCEPT ![c] = "sleeping"]
                /\ wake_at' = [wake_at EXCEPT ![c] =
                        RAdd(now, SleepFor(current_delay, time_since_last))]
                /\ slept' = [slept EXCEPT ![c] = TRUE]
                /\ entry' = [entry EXCEPT ![c] =
                        [t |-> now, self |-> Self,
                         asked |-> SleepFor(current_delay, time_since_last)]]
           ELSE /\ pc' = [pc EXCEPT ![c] = "stamp"]
                /\ slept' = [slept EXCEPT ![c] = FALSE]
                /\ entry' = [entry EXCEPT ![c] =
                        [t |-> now, self |-> Self, asked |-> RInt(0)]]
                /\ UNCHANGED wake_at
    /\ read_delay' = [read_delay EXCEPT ![c] = current_delay]
    /\ UNCHANGED <<cfg, phase, hist, now, ticks, starts>>
    /\ UNCHANGED obj
    /\ UNCHANGED <<race, recovery>>

\* sleep() returns no earlier than asked
Wake(c) ==
    /\ pc[c] = "sleeping"
    /\ RLeq(wake_at[c], now)
    /\ pc' = [pc EXCEPT ![c] = "stamp"]
    /\ UNCHANGED <<cfg, phase, hist, now, wake_at, read_delay, slept, ticks,
                   starts>>
    /\ UNCHANGED obj
    /\ UNCHANGED aux

\* pre_request line 33: self.last_request_time = time()
PreStamp(c) ==
    /\ pc[c] = "stamp"
    /\ last_request_time' = now
    /\ raised' = "none"
    /\ pc' = [pc EXCEPT ![c] = "idle"]
    /\ UNCHANGED <<cfg, phase, hist, now, wake_at, read_delay, slept, ticks>>
    /\ UNCHANGED <<response_times, current_delay, error_count, adjust_calls>>
    /\ entry' = [entry EXCEPT ![c] = NoEntry]
    /\ UNCHANGED <<race, recovery>>
    /\ starts' = Append(starts, [caller |-> c, t |-> now,
                                 prev |-> last_request_time,
                                 d |-> read_delay[c],
                                 slept |-> slept[c],
                                 pre |-> entry[c].self,
                                 post |-> SelfNext])

\* ------------------------------------- post_request, one access at a time
\* what no step of a post_request call touches
RaceFrame ==
    /\ UNCHANGED <<cfg, phase, hist, last_request_time, entry>>
    /\ UNCHANGED clk

\* caller c enters post_request(response) and tests response is None
RaceCall(c, response) ==
    /\ phase = "ready"
    /\ mode \in {"any", "race"}
    /\ rpc[c] = "idle"
    /\ pc[c] = "idle"
    /\ mode' = "race"
    /\ mark' = IF mode = "any" THEN Self ELSE mark
    /\ Goto(c, IF response = None THEN "inc_load" ELSE "append",
            [loc[c] EXCEPT !.response = response])
    /\ UNCHANGED obj
    /\ RaceFrame

\* self.error_count += 1: the read
IncLoad(c) ==
    /\ rpc[c] = "inc_load"
    /\ Goto(c, "inc_store", [loc[c] EXCEPT !.count = error_count])
    /\ UNCHANGED obj
    /\ UNCHANGED recovery
    /\ RaceFrame

\* self.error_count += 1: the write
IncStore(c) ==
    /\ rpc[c] = "inc_store"
    /\ error_count' = loc[c].count + 1
    /\ Goto(c, "backoff_delay", loc[c])
    /\ UNCHANGED <<response_times, current_delay, last_request_time,
                   adjust_calls, raised>>
    /\ UNCHANGED recovery
    /\ RaceFrame

\* the backoff expression reads self.current_delay
BackoffLoadDelay(c) ==
    /\ rpc[c] = "backoff_delay"
    /\ Goto(c, "backoff_count", [loc[c] EXCEPT !.delay = current_delay])
    /\ UNCHANGED obj
    /\ UNCHANGED recovery
    /\ RaceFrame

\* the backoff expression reads self.error_count
BackoffLoadCount(c) ==
    /\ rpc[c] = "backoff_count"
    /\ Goto(c, "backoff_store", [loc[c] EXCEPT !.count = error_count])
    /\ UNCHANGED obj
    /\ UNCHANGED recovery
    /\ RaceFrame

\* self.current_delay = min(self.max_delay, delay * 1.5 ** count)
BackoffStore(c) ==
    /\ rpc[c] = "backoff_store"
    /\ IF loc[c].count > FloatPowLimit
       THEN /\ raised' = "OverflowError"
            /\ UNCHANGED current_delay
       ELSE /\ current_delay' =
                   RMin(cfg.max_delay, TimesPow(loc[c].delay, loc[c].count))
            /\ UNCHANGED raised
    /\ Goto(c, "done", loc[c])
    /\ UNCHANGED <<response_times, error_count, last_request_time,
                   adjust_calls>>
    /\ UNCHANGED recovery
    /\ RaceFrame

\* self.response_times.append(response_time)
RaceAppend(c) ==
    /\ rpc[c] = "append"
    /\ response_times' =
           DequeAppend(response_times, loc[c].response, cfg.window_size)
    /\ Goto(c, "gate", loc[c])
    /\ UNCHANGED <<current_delay, error_count, last_request_time,
                   adjust_calls, raised>>
    /\ UNCHANGED recovery
    /\ RaceFrame

\* if len(self.response_times) >= self.window_size // 2
RaceGate(c) ==
    /\ rpc[c] = "gate"
    /\ Goto(c, IF GateOpen(Self) THEN "mean" ELSE "done", loc[c])
    /\ UNCHANGED obj
    /\ UNCHANGED recovery
    /\ RaceFrame

\* avg_response_time = mean(self.response_times) and the two comparisons
RaceMean(c) ==
    /\ rpc[c] = "mean"
    /\ adjust_calls' = adjust_calls + 1
    /\ IF response_times = <<>>
       THEN /\ raised' = "StatisticsError"
            /\ Goto(c, "done", loc[c])
       ELSE LET avg == Mean(response_times)
                moves == \/ RLess(cfg.target_response_time, avg)
                         \/ RLess(avg, RDivInt(cfg.target_response_time, 2))
            IN  /\ UNCHANGED raised
                /\ Goto(c, IF moves THEN "adjust_load" ELSE "decay_load",
                        [loc[c] EXCEPT !.avg = avg])
    /\ UNCHANGED <<response_times, current_delay, error_count,
                   last_request_time>>
    /\ UNCHANGED recovery
    /\ RaceFrame

\* the taken branch of _adjust_delay reads self.current_delay
AdjustLoad(c) ==
    /\ rpc[c] = "adjust_load"
    /\ Goto(c, "adjust_store", [loc[c] EXCEPT !.delay = current_delay])
    /\ UNCHANGED obj
    /\ UNCHANGED recovery
    /\ RaceFrame

\* the taken branch of _adjust_delay writes self.current_delay
AdjustStore(c) ==
    /\ rpc[c] = "adjust_store"
    /\ current_delay' =
           AdjustedDelay([current_delay |-> loc[c].delay], loc[c].avg)
    /\ Goto(c, "decay_load", loc[c])
    /\ UNCHANGED <<response_times, error_count, last_request_time,
                   adjust_calls, raised>>
    /\ UNCHANGED recovery
    /\ RaceFrame

\* max(0, self.error_count - 1): the read
DecayLoad(c) ==
    /\ rpc[c] = "decay_load"
    /\ Goto(c, "decay_store", [loc[c] EXCEPT !.count = error_count])
    /\ UNCHANGED obj
    /\ UNCHANGED recovery
    /\ RaceFrame

\* self.error_count = max(0, count - 1)
DecayStore(c) ==
    /\ rpc[c] = "decay_store"
    /\ error_count' = IF loc[c].count - 1 > 0 THEN loc[c].count - 1 ELSE 0
    /\ Goto(c, "done", loc[c])
    /\ UNCHANGED <<response_times, current_delay, last_request_time,
                   adjust_calls, raised>>
    /\ UNCHANGED recovery
    /\ RaceFrame

\* the clock advances by one quantum
Tick ==
    /\ phase = "ready"
    /\ ticks < MaxTicks
    /\ now' = RAdd(now, Quantum)
    /\ ticks' = ticks + 1
    /\ UNCHANGED <<cfg, phase, hist, pc, wake_at, read_delay, slept, starts>>
    /\ UNCHANGED obj
    /\ UNCHANGED aux

\* the clock advances exactly to the end of a pending sleep
TickToWake(c) ==
    /\ pc[c] = "sleeping"
    /\ RLess(now, wake_at[c])
    /\ now' = wake_at[c]
    /\ UNCHANGED <<cfg, phase, hist, pc, wake_at, read_delay, slept, ticks,
                   starts>>
    /\ UNCHANGED obj
    /\ UNCHANGED aux

\* --------------------------------------------------------- specifications
InitClk ==
    /\ now = StartTime
    /\ pc = [c \in Callers |-> "idle"]
    /\ wake_at = [c \in Callers |-> RInt(0)]
    /\ read_delay = [c \in Callers |-> RInt(0)]
    /\ slept = [c \in Callers |-> FALSE]
    /\ ticks = 0
    /\ starts = <<>>
    /\ entry = [c \in Callers |-> NoEntry]
    /\ rpc = [c \in Callers |-> "idle"]
    /\ loc = [c \in Callers |-> NoLocals]
    /\ mode = "any"
    /\ mark = NewSelf(cfg)

InitReady(configs) ==
    /\ cfg \in configs
    /\ phase = "ready"
    /\ response_times = NewSelf(cfg).response_times
    /\ current_delay = NewSelf(cfg).current_delay
    /\ error_count = NewSelf(cfg).error_count
    /\ last_request_time = NewSelf(cfg).last_request_time
    /\ adjust_calls = NewSelf(cfg).adjust_calls
    /\ raised = NewSelf(cfg).raised
    /\ hist = <<>>
    /\ InitClk

\* the control law: every sequence of post_request calls of one caller
Init == InitReady(GoodConfigs)

Next == \E r \in Responses : PostRequestCall(1, r, MaxEvents)

Spec == Init /\ [][Next]_vars

\* one caller, with the clock
InitClock == InitReady(ClockConfigs)

NextClock ==
    \/ \E r \in ClockResponses : PostRequestCall(1, r, MaxClockEvents)
    \/ PreCheck(1)
    \/ Wake(1)
    \/ PreStamp(1)
    \/ Tick
    \/ TickToWake(1)

SpecClock == InitClock /\ [][NextClock]_vars

\* two callers sharing one controller
InitThreads == InitReady(ThreadConfigs)

NextThreads ==
    \/ \E c \in Callers, r \in ThreadResponses :
          PostRequestCall(c, r, MaxClockEvents)
    \/ \E c \in Callers : PreCheck(c)
    \/ \E c \in Callers : Wake(c)
    \/ \E c \in Callers : PreStamp(c)
    \/ Tick
    \/ \E c \in Callers : TickToWake(c)

SpecThreads == InitThreads /\ [][NextThreads]_vars

\* construction from any configuration, then post_request calls
InitCtor ==
    /\ cfg \in GoodConfigs \cup BadConfigs
    /\ phase = "new"
    /\ response_times = <<>>
    /\ current_delay = RInt(0)
    /\ error_count = 0
    /\ last_request_time = RInt(0)
    /\ adjust_calls = 0
    /\ raised = "none"
    /\ hist = <<>>
    /\ InitClk

NextCtor ==
    \/ Construct
    \/ \E r \in ClockResponses : PostRequestCall(1, r, MaxClockEvents)

SpecCtor == InitCtor /\ [][NextCtor]_vars

\* one caller whose requests all fail, from a new controller until the call
\* that fails
InitStreak == InitReady(GoodConfigs)

NextStreak ==
    /\ error_count <= FloatPowLimit
    /\ PostRequestQuiet(1, None)

SpecStreak == InitStreak /\ [][NextStreak]_vars


\* two callers whose post_request calls interleave access by access, after
\* some calls made one at a time
InitRace == InitReady(ClockConfigs)

NextRace ==
    \/ /\ mode = "any"
       /\ \E r \in ClockResponses : PostRequestCall(1, r, MaxClockEvents)
    \/ \E c \in Callers : \E r \in ClockResponses : RaceCall(c, r)
    \/ \E c \in Callers : IncLoad(c)
    \/ \E c \in Callers : IncStore(c)
    \/ \E c \in Callers : BackoffLoadDelay(c)
    \/ \E c \in Callers : BackoffLoadCount(c)
    \/ \E c \in Callers : BackoffStore(c)
    \/ \E c \in Callers : RaceAppend(c)
    \/ \E c \in Callers : RaceGate(c)
    \/ \E c \in Callers : RaceMean(c)
    \/ \E c \in Callers : AdjustLoad(c)
    \/ \E c \in Callers : AdjustStore(c)
    \/ \E c \in Callers : DecayLoad(c)
    \/ \E c \in Callers : DecayStore(c)

SpecRace == InitRace /\ [][NextRace]_vars

\* one caller: any calls, then only fast successes, which keep coming
InitRecovery == InitReady(RecoveryConfigs)

NextRecovery ==
    \/ /\ mode = "any"
       /\ \E r \in Responses : PostRequestCall(1, r, MaxClockEvents)
    \/ BeginRecovery
    \/ RecoverEnter
    \/ RecoverRun

\* fast responses keep coming, and a call that was entered returns
SpecRecovery ==
    /\ InitRecovery
    /\ [][NextRecovery]_vars
    /\ WF_vars(RecoverEnter)
    /\ WF_rpc(Returns)

\* ----------------------------------------------------------------- claims
IsFailure(e) == e.response = None

IsSuccess(e) == e.response # None

\* _adjust_delay ran in the call e
Adjusted(e) == e.post.adjust_calls > e.pre.adjust_calls

\* successes among the first i calls
NumSuccess(i) == Cardinality({j \in 1..i : IsSuccess(hist[j])})

\* the calls i..j are all failures
FailureRun(i, j) == \A m \in i..j : IsFailure(hist[m])

\* the first k calls all carry the response r
AllFirst(k, r) == Len(hist) >= k /\ \A m \in 1..k : hist[m].response = r

\* min(max_delay, d * 1.5^t), multiplying one factor at a time and stopping
\* at the cap (d >= 0, so the product only grows)
RECURSIVE CappedBackoff(_, _)
CappedBackoff(d, t) ==
    IF t = 0 \/ RLeq(cfg.max_delay, d)
    THEN RMin(cfg.max_delay, d)
    ELSE CappedBackoff(RMul(d, BackoffBase), t - 1)

Triangular(k) == (k * (k + 1)) \div 2

\* C1: min_delay <= current_delay <= max_delay in the initial state and
\* after every post_request call, for every configuration with
\* 0 <= min_delay <= max_delay and every sequence of successes and failures.
C1_DelayWithinBounds ==
    /\ RLeq(cfg.min_delay, current_delay)
    /\ RLeq(current_delay, cfg.max_delay)

\* C1 witness: a failure was capped at max_delay, an adjustment was floored
\* at min_delay, and an adjustment ran after a failure.
C1_Witness ==
    /\ \E i \in 1..Len(hist) :
          /\ IsFailure(hist[i])
          /\ hist[i].post.current_delay = cfg.max_delay
          /\ RLess(cfg.max_delay,
                   RMul(hist[i].pre.current_delay,
                        RPow(BackoffBase, hist[i].post.error_count)))
    /\ \E i \in 1..Len(hist) :
          /\ Adjusted(hist[i])
          /\ hist[i].post.current_delay = cfg.min_delay
          /\ RLess(RMul(hist[i].pre.current_delay, SpeedUpFactor),
                   cfg.min_delay)

\* C2 as claimed: a success that is fewer than ceil(window_size / 2)
\* successes into the run leaves current_delay as it was.
C2_CeilGate ==
    \A i \in 1..Len(hist) :
        (IsSuccess(hist[i]) /\ NumSuccess(i) < (cfg.window_size + 1) \div 2)
            => hist[i].post.current_delay = hist[i].pre.current_delay

\* C2 amended: a success that is fewer than window_size // 2 (floor)
\* successes into the run leaves current_delay as it was.
C2_FloorGate ==
    \A i \in 1..Len(hist) :
        (IsSuccess(hist[i]) /\ NumSuccess(i) < cfg.window_size \div 2)
            => hist[i].post.current_delay = hist[i].pre.current_delay

\* C2 witness: a success slower than the target, before the gate opens,
\* left the delay alone although an ease-off would have changed it.
C2_Witness ==
    \E i \in 1..Len(hist) :
        /\ IsSuccess(hist[i])
        /\ NumSuccess(i) < cfg.window_size \div 2
        /\ RLess(cfg.target_response_time, hist[i].response)
        /\ RLess(hist[i].pre.current_delay, cfg.max_delay)
        /\ hist[i].post.current_delay = hist[i].pre.current_delay

\* C3 as claimed: after the k-th consecutive failure of a run that began
\* with current_delay = d0 and error_count = 0, current_delay is
\* min(max_delay, d0 * 1.5^k).
C3_FlatBackoff ==
    \A i \in 1..Len(hist) : \A j \in i..Len(hist) :
        (FailureRun(i, j) /\ hist[i].pre.error_count = 0)
            => hist[j].post.current_delay =
                   RMin(cfg.max_delay,
                        RMul(hist[i].pre.current_delay,
                             RPow(BackoffBase, j - i + 1)))

\* C3 amended: after the k-th consecutive failure of a run that began with
\* current_delay = d0 and error_count = 0, current_delay is
\* min(max_delay, d0 * 1.5^(1 + 2 + ... + k)).
C3_CompoundBackoff ==
    \A i \in 1..Len(hist) : \A j \in i..Len(hist) :
        (FailureRun(i, j) /\ hist[i].pre.error_count = 0)
            => hist[j].post.current_delay =
                   CappedBackoff(hist[i].pre.current_delay,
                                 Triangular(j - i + 1))

\* C3 witness: three consecutive failures from error_count = 0 whose delay
\* is still under the cap, after an earlier success.
C3_Witness ==
    \E i \in 2..Len(hist) :
        /\ i + 2 <= Len(hist)
        /\ FailureRun(i, i + 2)
        /\ hist[i].pre.error_count = 0
        /\ RLess(RInt(0), hist[i].pre.current_delay)
        /\ RLess(hist[i + 2].post.current_delay, cfg.max_delay)

\* C4: a failure never decreases current_delay, and a failure at
\* current_delay = max_delay leaves it at max_delay.
C4_FailureNeverDecreases ==
    \A i \in 1..Len(hist) :
        IsFailure(hist[i])
            => /\ RLeq(hist[i].pre.current_delay, hist[i].post.current_delay)
               /\ (hist[i].pre.current_delay = cfg.max_delay
                      => hist[i].post.current_delay = cfg.max_delay)

\* C4 witness: a failure raised the delay strictly, and a later consecutive
\* failure found it at max_delay and left it there.
C4_Witness ==
    \E i \in 1..Len(hist) : \E j \in (i + 1)..Len(hist) :
        /\ FailureRun(i, j)
        /\ RLess(hist[i].pre.current_delay, hist[i].post.current_delay)
        /\ hist[j].pre.current_delay = cfg.max_delay
        /\ hist[j].post.current_delay = cfg.max_delay
        /\ RLess(cfg.min_delay, cfg.max_delay)

\* C5: with min_delay = 0.2 and max_delay = 5.0, the first three calls of a
\* new controller being failures, current_delay is 0.3 after the first,
\* 0.675 after the second and 2.278125 after the third.
C5_ThreeFailures ==
    (cfg.min_delay = Rat(1, 5) /\ cfg.max_delay = RInt(5))
        => /\ AllFirst(1, None) => hist[1].post.current_delay = Rat(3, 10)
           /\ AllFirst(2, None) => hist[2].post.current_delay = Rat(27, 40)
           /\ AllFirst(3, None) => hist[3].post.current_delay = Rat(729, 320)

\* C5 witness: the third of three initial failures has been handled.
C5_Witness ==
    /\ cfg.min_delay = Rat(1, 5) /\ cfg.max_delay = RInt(5)
    /\ Len(hist) = 3
    /\ AllFirst(3, None)
    /\ error_count = 3
    /\ current_delay = Rat(729, 320)

\* the sum of the window against n times a threshold: mean > t and mean < t
\* without dividing
MeanAbove(w, t) == RLess(RMul(t, RInt(Len(w))), RSum(w))

MeanBelow(w, t) == RLess(RSum(w), RMul(t, RInt(Len(w))))

\* C6: on every success at which the adjustment runs, with avg the mean of
\* the retained latencies including the new one: avg > target gives
\* min(max_delay, delay * 1.2); otherwise avg < target / 2 gives
\* max(min_delay, delay * 0.95); otherwise (target / 2 <= avg <= target)
\* the delay is unchanged.
C6_AdjustmentLaw ==
    \A i \in 1..Len(hist) :
        (IsSuccess(hist[i]) /\ Adjusted(hist[i])) =>
            LET w == hist[i].post.response_times
                t == cfg.target_response_time
                d == hist[i].pre.current_delay
                d2 == hist[i].post.current_delay
            IN  /\ w # <<>>
                /\ w[Len(w)] = hist[i].response
                /\ IF MeanAbove(w, t)
                   THEN d2 = RMin(cfg.max_delay, RMul(d, Rat(6, 5)))
                   ELSE IF MeanBelow(w, RMul(t, Rat(1, 2)))
                   THEN d2 = RMax(cfg.min_delay, RMul(d, Rat(19, 20)))
                   ELSE d2 = d

\* C6 witness: adjustments ran with the mean exactly at the target and
\* exactly at half the target (delay kept), with a mean above the target
\* (delay raised) and with one below half the target (delay lowered).
C6_Witness ==
    LET t == cfg.target_response_time
        Adj == {i \in 1..Len(hist) : IsSuccess(hist[i]) /\ Adjusted(hist[i])}
    IN  /\ \E i \in Adj :
              /\ Mean(hist[i].post.response_times) = t
              /\ hist[i].post.current_delay = hist[i].pre.current_delay
              /\ RLess(hist[i].pre.current_delay, cfg.max_delay)
        /\ \E i \in Adj :
              /\ Mean(hist[i].post.response_times) = RDivInt(t, 2)
              /\ hist[i].post.current_delay = hist[i].pre.current_delay
              /\ RLess(cfg.min_delay, hist[i].pre.current_delay)
        /\ \E i \in Adj :
              RLess(hist[i].pre.current_delay, hist[i].post.current_delay)
        /\ \E i \in Adj :
              RLess(hist[i].post.current_delay, hist[i].pre.current_delay)

\* C7: the adjustment runs on a success exactly when the retained samples
\* after the append number at least window_size // 2; with window 10,
\* target 0.5, delays 0.2 .. 5.0 on a new controller, successes 1..4 of
\* latency 1.0 leave the delay at 0.2 and the fifth makes it 0.24, while
\* five successes of latency 0.1 leave it at 0.2 each time.
C7_GateAndScenario ==
    /\ \A i \in 1..Len(hist) :
          IsSuccess(hist[i]) =>
              (Adjusted(hist[i]) <=>
                  Len(hist[i].post.response_times) >= cfg.window_size \div 2)
    /\ cfg = ScenarioCfg =>
          \A k \in 1..5 :
              /\ AllFirst(k, RInt(1)) =>
                    hist[k].post.current_delay =
                        IF k < 5 THEN Rat(1, 5) ELSE Rat(6, 25)
              /\ AllFirst(k, Rat(1, 10)) =>
                    hist[k].post.current_delay = Rat(1, 5)

\* C7 witness: the fifth success of latency 1.0 has set the delay to 0.24.
C7_Witness ==
    /\ cfg = ScenarioCfg
    /\ Len(hist) = 5
    /\ AllFirst(5, RInt(1))
    /\ adjust_calls = 1
    /\ current_delay = Rat(6, 25)

\* the request starts are spaced: each pre_request return is at least the
\* current_delay that call read after the return before it
StartsSpaced ==
    \A i \in 2..Len(starts) :
        RLeq(starts[i].d, RSub(starts[i].t, starts[i - 1].t))

\* C8: with one caller, a clock that never goes back and a sleep(d) that
\* takes at least d, the last_request_time written by a pre_request call is
\* at least the current_delay it read after the one written by the call
\* before it.
C8_SingleCallerSpacing ==
    /\ StartsSpaced
    /\ \A i \in 2..Len(starts) : starts[i].prev = starts[i - 1].t

\* C8 witness: a second pre_request slept for a positive delay and returned
\* exactly that delay after the first; a third returned later than its delay.
C8_Witness ==
    /\ Len(starts) >= 3
    /\ starts[2].slept
    /\ RLess(RInt(0), starts[2].d)
    /\ RSub(starts[2].t, starts[1].t) = starts[2].d
    /\ RLess(starts[3].d, RSub(starts[3].t, starts[2].t))

\* C9: with two callers sharing the controller, in every interleaving no two
\* request starts are less than current_delay apart.
C9_ConcurrentSpacing == StartsSpaced

\* C10: a controller built from a malformed configuration (min_delay >
\* max_delay, or window_size <= 0) is never usable.
C10_MalformedRejected == phase = "ready" => WellFormed(cfg)

\* the latencies of the successes among the first i calls, in call order
RECURSIVE SuccessLatencies(_)
SuccessLatencies(i) ==
    IF i = 0 THEN <<>>
    ELSE IF IsSuccess(hist[i])
    THEN Append(SuccessLatencies(i - 1), hist[i].response)
    ELSE SuccessLatencies(i - 1)

\* the failures at the end of the first i calls
RECURSIVE TrailingFailures(_)
TrailingFailures(i) ==
    IF i = 0 \/ IsSuccess(hist[i]) THEN 0 ELSE 1 + TrailingFailures(i - 1)

NumFailures(i) == i - NumSuccess(i)

\* C11: a failure raises error_count by exactly 1, multiplies the delay by
\* 1.5 to the power of the raised counter (capped at max_delay), leaves
\* response_times and last_request_time as they were and does not run the
\* adjustment.
C11_FailureEffect ==
    \A i \in 1..Len(hist) :
        IsFailure(hist[i]) =>
            /\ hist[i].post.error_count = hist[i].pre.error_count + 1
            /\ hist[i].post.current_delay =
                   CappedBackoff(hist[i].pre.current_delay,
                                 hist[i].pre.error_count + 1)
            /\ hist[i].post.response_times = hist[i].pre.response_times
            /\ hist[i].post.last_request_time = hist[i].pre.last_request_time
            /\ ~Adjusted(hist[i])

\* C11 witness: a failure at error_count >= 1 with samples retained, whose
\* delay stayed under the cap.
C11_Witness ==
    \E i \in 1..Len(hist) :
        /\ IsFailure(hist[i])
        /\ hist[i].pre.error_count >= 1
        /\ hist[i].pre.response_times # <<>>
        /\ RLess(hist[i].pre.current_delay, hist[i].post.current_delay)
        /\ RLess(hist[i].post.current_delay, cfg.max_delay)

C13_WindowIsLastSuccesses ==
    LET all == SuccessLatencies(Len(hist))
        n == Len(all)
        k == IF n < cfg.window_size THEN n ELSE cfg.window_size
    IN  /\ Len(response_times) <= cfg.window_size
        /\ response_times = SubSeq(all, n - k + 1, n)

\* C13 witness: more successes than the window holds, the evicted latency
\* different from every retained one.
C13_Witness ==
    LET all == SuccessLatencies(Len(hist))
    IN  /\ cfg.window_size >= 2
        /\ Len(all) = cfg.window_size + 1
        /\ Len(response_times) = cfg.window_size
        /\ \A j \in 1..Len(response_times) : response_times[j] # all[1]
        /\ response_times[1] # response_times[2]

C14_PreRequestEffect ==
    /\ \A c \in Callers :
          pc[c] # "idle" =>
              LET e == entry[c]
                  elapsed == RSub(e.t, e.self.last_request_time)
                  delay == e.self.current_delay
              IN  /\ slept[c] <=> RLess(elapsed, delay)
                  /\ slept[c] =>
                        /\ e.asked = RSub(delay, elapsed)
                        /\ wake_at[c] = RAdd(e.t, e.asked)
                        /\ pc[c] = "stamp" => RLeq(wake_at[c], now)
                  /\ ~slept[c] => (e.asked = RInt(0) /\ pc[c] = "stamp")
                  /\ Self = e.self
    /\ \A i \in 1..Len(starts) :
          LET s == starts[i]
          IN  /\ s.post.last_request_time = s.t
              /\ s.post.current_delay = s.pre.current_delay
              /\ s.post.error_count = s.pre.error_count
              /\ s.post.response_times = s.pre.response_times

\* C14 witness: a pre_request that did not sleep has returned, and a later
\* one, meeting a delay a failure had raised and a retained sample, has
\* slept for part of that delay and is about to write last_request_time.
C14_Witness ==
    /\ Len(starts) >= 1
    /\ ~starts[1].slept
    /\ pc[1] = "stamp"
    /\ slept[1]
    /\ RLess(RInt(0), entry[1].asked)
    /\ RLess(entry[1].asked, entry[1].self.current_delay)
    /\ entry[1].self.error_count >= 1
    /\ entry[1].self.response_times # <<>>

\* C17: for window_size >= 1 and min_delay <= max_delay, post_request never
\* ends in an error on any sequence of successes and failures, and the
\* window is non-empty whenever the adjustment runs.
C17_PostRequestNeverFails ==
    WellFormed(cfg) =>
        /\ raised = "none"
        /\ adjust_calls > 0 => response_times # <<>>

\* the fields C16 compares
Shared(s) == <<s.error_count, s.current_delay, s.response_times>>

\* C16: when the post_request calls of two callers interleave access by
\* access, the final error_count, current_delay and response_times equal
\* those of the two calls run one after the other in some order; two
\* concurrent failures raise error_count by 2.
C16_Serializable ==
    (\A c \in Callers : rpc[c] = "done") =>
        LET r1 == loc[1].response
            r2 == loc[2].response
        IN  /\ Shared(Self) \in
                  { Shared(PostRequest(PostRequest(mark, r1), r2)),
                    Shared(PostRequest(PostRequest(mark, r2), r1)) }
            /\ (r1 = None /\ r2 = None) =>
                  error_count = mark.error_count + 2

\* C18: once every response is a success with latency below
\* target_response_time / 2, after finitely many of them current_delay =
\* min_delay and error_count = 0, and both stay so.
C18_RecoveryReached ==
    (mode = "recover") ~>
        [](current_delay = cfg.min_delay /\ error_count = 0)

\* recovered from max_delay and two errors
C18_Witness ==
    /\ mode = "recover"
    /\ rpc[1] = "idle"
    /\ mark.error_count >= 2
    /\ mark.current_delay = cfg.max_delay
    /\ RLess(cfg.min_delay, cfg.max_delay)
    /\ current_delay = cfg.min_delay
    /\ error_count = 0

====
